---- MODULE Spec2Model ----
(***************************************************************************)
(* Model of liftedmerk: the proof map (src/proofs/query/map_js.rs:         *)
(* JsMapBuilder, JsMap, JsFlatMap, check_end_bound) and the Merkle AVL     *)
(* tree node (src/tree/mod.rs: Tree::new / attach / detach / commit).      *)
(***************************************************************************)
EXTENDS Integers, Sequences, FiniteSets, TLC

(***************************************************************************)
(* Bounds of the model.                                                    *)
(***************************************************************************)
\* number of proof nodes a builder ingests successfully before build()
MaxNodes == 4
\* values are the one-byte vectors <<1>> .. <<MaxValue>>
MaxValue == 2
\* number of next() calls made on one range iterator
MaxCalls == 5

(***************************************************************************)
(* Keys and values: Vec<u8>, ordered lexicographically as Rust orders      *)
(* Vec<u8>.                                                                *)
(***************************************************************************)
Keys == { <<1, 2, 3>>, <<1, 2, 3, 4>>, <<1, 2, 4>>, <<1, 2, 5>> }

Values == { <<v>> : v \in 1..MaxValue }

RECURSIVE KeyLt(_, _)
KeyLt(a, b) ==
    IF a = <<>> THEN b # <<>>
    ELSE IF b = <<>> THEN FALSE
    ELSE IF a[1] # b[1] THEN a[1] < b[1]
    ELSE KeyLt(Tail(a), Tail(b))

KeyLe(a, b) == a = b \/ KeyLt(a, b)

(***************************************************************************)
(* Option<T> and Result<T>.                                                *)
(***************************************************************************)
None == [some |-> FALSE]
Some(x) == [some |-> TRUE, val |-> x]

OrderErr == "Expected nodes to be in increasing key order"
MissingErr == "Proof is missing data for query"

Ok(x) == [tag |-> "Ok", val |-> x]
Err(msg) == [tag |-> "Err", msg |-> msg]

(***************************************************************************)
(* Proof nodes: Node::KV(key, value), Node::KVHash(hash), Node::Hash(hash).*)
(* insert reads only the variant, and the key and value of a KV.           *)
(***************************************************************************)
KV(key, value) == [type |-> "KV", key |-> key, value |-> value]
KVHashNode == [type |-> "KVHash", key |-> <<>>, value |-> <<>>]
HashNode == [type |-> "Hash", key |-> <<>>, value |-> <<>>]

Nodes == { KV(k, v) : k \in Keys, v \in Values } \cup { KVHashNode, HashNode }

(***************************************************************************)
(* JsMap { entries: BTreeMap<Vec<u8>, (bool, Vec<u8>)>, right_edge }.      *)
(* entries is a function from the stored keys to [contiguous, value].      *)
(***************************************************************************)
JsMapBuilder_new == [entries |-> <<>>, right_edge |-> TRUE]

\* BTreeMap::last_key_value: the entry with the greatest key, if any
last_key_value(entries) ==
    IF DOMAIN entries = {} THEN None
    ELSE Some(CHOOSE k \in DOMAIN entries : \A j \in DOMAIN entries : KeyLe(j, k))

\* BTreeMap::insert: adds the key, or replaces the value stored under it
btree_insert(entries, key, val) ==
    [k \in DOMAIN entries \cup {key} |-> IF k = key THEN val ELSE entries[k]]

\* insert without the ensure!(key > prev_key)
insert_unordered(map, node) ==
    IF node.type = "KV"
    THEN [res |-> Ok(<<>>),
          map |-> [entries |-> btree_insert(map.entries, node.key,
                                  [contiguous |-> map.right_edge,
                                   value |-> node.value]),
                   right_edge |-> TRUE]]
    ELSE [res |-> Ok(<<>>), map |-> [map EXCEPT !.right_edge = FALSE]]

\* insert that does not set right_edge back to true on a KV
insert_edge_kept(map, node) ==
    IF node.type = "KV"
    THEN LET last == last_key_value(map.entries)
         IN IF last.some /\ ~KeyLt(last.val, node.key)
            THEN [res |-> Err(OrderErr), map |-> map]
            ELSE [res |-> Ok(<<>>),
                  map |-> [entries |-> btree_insert(map.entries, node.key,
                                          [contiguous |-> map.right_edge,
                                           value |-> node.value]),
                           right_edge |-> map.right_edge]]
    ELSE [res |-> Ok(<<>>), map |-> [map EXCEPT !.right_edge = FALSE]]

\* insert that flags every entry contiguous
insert_always_contiguous(map, node) ==
    IF node.type = "KV"
    THEN LET last == last_key_value(map.entries)
         IN IF last.some /\ ~KeyLt(last.val, node.key)
            THEN [res |-> Err(OrderErr), map |-> map]
            ELSE [res |-> Ok(<<>>),
                  map |-> [entries |-> btree_insert(map.entries, node.key,
                                          [contiguous |-> TRUE,
                                           value |-> node.value]),
                           right_edge |-> TRUE]]
    ELSE [res |-> Ok(<<>>), map |-> [map EXCEPT !.right_edge = FALSE]]

\* insert that sets right_edge for a KV before it checks the key order
insert_edge_set_first(map, node) ==
    IF node.type = "KV"
    THEN LET last == last_key_value(map.entries)
         IN IF last.some /\ ~KeyLt(last.val, node.key)
            THEN [res |-> Err(OrderErr), map |-> [map EXCEPT !.right_edge = TRUE]]
            ELSE [res |-> Ok(<<>>),
                  map |-> [entries |-> btree_insert(map.entries, node.key,
                                          [contiguous |-> map.right_edge,
                                           value |-> node.value]),
                           right_edge |-> TRUE]]
    ELSE [res |-> Ok(<<>>), map |-> [map EXCEPT !.right_edge = FALSE]]

\* JsMapBuilder::insert, the result and the builder's map after the call
insert(map, node) ==
    IF node.type = "KV"
    THEN LET last == last_key_value(map.entries)
         IN IF last.some /\ ~KeyLt(last.val, node.key)
            THEN [res |-> Err(OrderErr), map |-> map]
            ELSE [res |-> Ok(<<>>),
                  map |-> [entries |-> btree_insert(map.entries, node.key,
                                          [contiguous |-> map.right_edge,
                                           value |-> node.value]),
                           right_edge |-> TRUE]]
    ELSE [res |-> Ok(<<>>), map |-> [map EXCEPT !.right_edge = FALSE]]

(***************************************************************************)
(* std::ops::Bound and BTreeMap::range.                                    *)
(***************************************************************************)
Included(k) == [bound |-> "Included", key |-> k]
Excluded(k) == [bound |-> "Excluded", key |-> k]
Unbounded == [bound |-> "Unbounded", key |-> <<>>]

\* bound_to_inner: None for Unbounded, the inner key otherwise
bound_to_inner(bound) ==
    IF bound.bound = "Unbounded" THEN None ELSE Some(bound.key)

\* bound_to_vec copies the key of a bound and keeps its kind
bound_to_vec(bound) == bound

bounds_to_vec(start_bound, end_bound) ==
    <<bound_to_vec(start_bound), bound_to_vec(end_bound)>>

AboveStart(k, b) ==
    CASE b.bound = "Unbounded" -> TRUE
      [] b.bound = "Included" -> KeyLe(b.key, k)
      [] b.bound = "Excluded" -> KeyLt(b.key, k)

BelowEnd(k, b) ==
    CASE b.bound = "Unbounded" -> TRUE
      [] b.bound = "Included" -> KeyLe(k, b.key)
      [] b.bound = "Excluded" -> KeyLt(k, b.key)

\* the keys of S in ascending order
RECURSIVE Ascending(_)
Ascending(S) ==
    IF S = {} THEN <<>>
    ELSE LET m == CHOOSE k \in S : \A j \in S : KeyLe(k, j)
         IN <<m>> \o Ascending(S \ {m})

\* BTreeMap::range(bounds): the entries inside the bounds, in key order,
\* each as (key, (contiguous, value))
btree_range(entries, bounds) ==
    LET inside == { k \in DOMAIN entries :
                      AboveStart(k, bounds[1]) /\ BelowEnd(k, bounds[2]) }
        ks == Ascending(inside)
    IN [i \in 1..Len(ks) |-> [key |-> ks[i],
                              contiguous |-> entries[ks[i]].contiguous,
                              value |-> entries[ks[i]].value]]

(***************************************************************************)
(* JsFlatMap { inner, prev_key, start_key }: the range iterator.  pos is   *)
(* the cursor of inner's iterator; map is the JsMap that range consumed    *)
(* and that check_end_bound reads.                                         *)
(***************************************************************************)
\* collect() of the entries in range into a JsFlatMap
collect(items, start_key, map) ==
    [map |-> map, inner |-> items, pos |-> 0,
     prev_key |-> None, start_key |-> start_key]

\* range with an exclusive end bound
range_end_excluded(map, start, end) ==
    LET start_bound == Included(start)
        end_bound == Excluded(end)
        start_key == bound_to_inner(start_bound)
        bounds == bounds_to_vec(start_bound, end_bound)
    IN collect(btree_range(map.entries, bounds), start_key, map)

\* JsMap::range
range(map, start, end) ==
    LET start_bound == Included(start)
        end_bound == Included(end)
        start_key == bound_to_inner(start_bound)
        bounds == bounds_to_vec(start_bound, end_bound)
    IN collect(btree_range(map.entries, bounds), start_key, map)

\* check_end_bound that takes an empty range for excluded data
check_end_bound_empty_excluded(prev_key, map) ==
    LET excluded_data ==
          IF ~prev_key.some THEN TRUE
          ELSE LET rng == <<Excluded(prev_key.val), Unbounded>>
                   rest == btree_range(map.entries, rng)
               IN IF Len(rest) = 0 THEN ~map.right_edge
                  ELSE ~rest[1].contiguous
    IN IF excluded_data THEN Err(MissingErr) ELSE Ok(<<>>)

\* check_end_bound that looks at right_edge only, never at the neighbour
check_end_bound_edge_only(prev_key, map) ==
    IF ~map.right_edge THEN Err(MissingErr) ELSE Ok(<<>>)

\* check_end_bound: Err when the proof does not prove the end of the range
check_end_bound(prev_key, map) ==
    LET excluded_data ==
          IF ~prev_key.some THEN ~map.right_edge
          ELSE LET rng == <<Excluded(prev_key.val), Unbounded>>
                   rest == btree_range(map.entries, rng)
               IN IF Len(rest) = 0 THEN ~map.right_edge
                  ELSE ~rest[1].contiguous
    IN IF excluded_data THEN Err(MissingErr) ELSE Ok(<<>>)

\* next that exempts the first entry of the range instead of the entry
\* whose key is start_key
next_exempt_first(it) ==
    IF it.pos >= Len(it.inner)
    THEN LET r == check_end_bound(it.prev_key, it.map)
         IN [item |-> IF r.tag = "Err" THEN Some(r) ELSE None, it |-> it]
    ELSE LET e == it.inner[it.pos + 1]
             skip_exclusion_check == it.pos = 0
             it2 == [it EXCEPT !.pos = it.pos + 1, !.prev_key = Some(e.key)]
         IN IF ~skip_exclusion_check /\ ~e.contiguous
            THEN [item |-> Some(Err(MissingErr)), it |-> it2]
            ELSE [item |-> Some(Ok(<<e.key, e.value>>)), it |-> it2]

\* JsFlatMap::next: the item returned (an Option<Result<(key, value)>>) and
\* the iterator after the call
next(it) ==
    IF it.pos >= Len(it.inner)
    THEN LET r == check_end_bound(it.prev_key, it.map)
         IN [item |-> IF r.tag = "Err" THEN Some(r) ELSE None, it |-> it]
    ELSE LET e == it.inner[it.pos + 1]
             skip_exclusion_check ==
                 IF it.start_key.some THEN it.start_key.val = e.key ELSE FALSE
             it2 == [it EXCEPT !.pos = it.pos + 1, !.prev_key = Some(e.key)]
         IN IF ~skip_exclusion_check /\ ~e.contiguous
            THEN [item |-> Some(Err(MissingErr)), it |-> it2]
            ELSE [item |-> Some(Ok(<<e.key, e.value>>)), it |-> it2]

\* get that applies the contiguity check to an exact hit
get_gap_checked(map, key) ==
    IF key \in DOMAIN map.entries
    THEN IF map.entries[key].contiguous
         THEN Ok(Some(map.entries[key].value))
         ELSE Err(MissingErr)
    ELSE LET first == next(range(map, key, key)).item
         IN IF ~first.some THEN Ok(None)
            ELSE IF first.val.tag = "Err" THEN first.val
            ELSE Ok(Some(first.val.val[2]))

\* JsMap::get: a Result<Option<value>>
get(map, key) ==
    IF key \in DOMAIN map.entries
    THEN Ok(Some(map.entries[key].value))
    ELSE LET first == next(range(map, key, key)).item
         IN IF ~first.some THEN Ok(None)
            ELSE IF first.val.tag = "Err" THEN first.val
            ELSE Ok(Some(first.val.val[2]))

(***************************************************************************)
(* State of the proof-map program: a builder fed by a proof, the map it    *)
(* builds, and the queries made on the map.                                *)
(***************************************************************************)
VARIABLES
    builder,     \* the JsMap inside the JsMapBuilder, then the built JsMap
    ingested,    \* the insert calls that returned Ok, in order: the node
                 \* and right_edge as it was when the call was made
    lastInsert,  \* the last insert call: node, result, map before the call
    phase,       \* "building", "built" (after build()), "ranging"
    lastGet,     \* the last get call on the built map: key and result
    query,       \* the (start, end) given to range
    iter,        \* the JsFlatMap returned by range
    yielded      \* what the next() calls on iter returned, in order

mapVars == <<builder, ingested, lastInsert, phase, lastGet, query, iter, yielded>>

(***************************************************************************)
(* State of the tree program: one tree owned by the caller, the build      *)
(* configuration, and what the last operation on the tree was.             *)
(***************************************************************************)
VARIABLES
    tree,              \* the Tree the caller holds
    debug_assertions,  \* whether the build checks debug_assert!s
    fatal,             \* the panic message once the program has panicked, else ""
    created,           \* number of Tree::new calls made so far
    lastOp             \* the last operation, its arguments and its result: for
                       \* commit, the tree before the call, the result, the
                       \* sink after the call and the with_value it follows;
                       \* for load, also the hash the tree had after the
                       \* commit that only loads have followed

treeVars == <<tree, debug_assertions, fatal, created, lastOp>>

vars == <<mapVars, treeVars>>

NoIter == collect(<<>>, None, JsMapBuilder_new)

MapInit ==
    /\ builder = JsMapBuilder_new
    /\ ingested = <<>>
    /\ lastInsert = None
    /\ phase = "building"
    /\ lastGet = None
    /\ query = <<>>
    /\ iter = NoIter
    /\ yielded = <<>>

\* builder.insert(&node)
Insert(node) ==
    /\ phase = "building"
    /\ Len(ingested) < MaxNodes
    /\ LET r == insert(builder, node)
       IN /\ builder' = r.map
          /\ ingested' = IF r.res.tag = "Ok"
                         THEN Append(ingested, [node |-> node,
                                                right_edge |-> builder.right_edge])
                         ELSE ingested
          /\ lastInsert' = Some([node |-> node, res |-> r.res, before |-> builder])
    /\ UNCHANGED <<phase, lastGet, query, iter, yielded, treeVars>>

\* builder.build(): the builder is consumed, its map is handed out
Build ==
    /\ phase = "building"
    /\ phase' = "built"
    /\ lastInsert' = None
    /\ UNCHANGED <<builder, ingested, lastGet, query, iter, yielded, treeVars>>

\* map.get(&key)
Get(key) ==
    /\ phase = "built"
    /\ lastGet' = Some([key |-> key, res |-> get(builder, key)])
    /\ UNCHANGED <<builder, ingested, lastInsert, phase, query, iter, yielded, treeVars>>

\* map.range(start, end); BTreeMap::range panics when start > end
Range(start, end) ==
    /\ phase = "built"
    /\ KeyLe(start, end)
    /\ phase' = "ranging"
    /\ query' = <<start, end>>
    /\ iter' = range(builder, start, end)
    /\ yielded' = <<>>
    /\ lastGet' = None
    /\ UNCHANGED <<builder, ingested, lastInsert, treeVars>>

\* range.next()
IterNext ==
    /\ phase = "ranging"
    /\ Len(yielded) < MaxCalls
    /\ LET r == next(iter)
       IN /\ iter' = r.it
          /\ yielded' = Append(yielded, r.item)
    /\ UNCHANGED <<builder, ingested, lastInsert, phase, lastGet, query, treeVars>>

MapNext ==
    \/ \E node \in Nodes : Insert(node)
    \/ Build
    \/ \E key \in Keys : Get(key)
    \/ \E start \in Keys, end \in Keys : Range(start, end)
    \/ IterNext

(***************************************************************************)
(* The tree node.  Bounds of the tree model.                               *)
(***************************************************************************)

\* number of nodes the caller creates with Tree::new
MaxNew == 3

\* the i-th node created gets key i, unless it repeats its parent's key
TreeKeys == 1..MaxNew
\* the caller gives the node of key k the value 100 + k
NewValue(key) == 100 + key
\* and replaces it with 200 + k
AltValue(key) == 200 + key
TreeValues == { NewValue(k) : k \in TreeKeys } \cup { AltValue(k) : k \in TreeKeys }

Max(a, b) == IF a >= b THEN a ELSE b

(***************************************************************************)
(* Hashes.  A hash is modelled by the term it is the hash of, so two       *)
(* hashes are equal exactly when they hash the same data.                  *)
(***************************************************************************)
NULL_HASH == <<>>
kv_hash(key, value) == <<key, value>>
node_hash(kv, left, right) == <<kv, left, right>>
\* what a read of the hash of a Modified link gives: it is not valid
DIRTY_HASH == <<"dirty">>

(***************************************************************************)
(* Link: Pruned { hash, child_heights, key }, Modified { pending_writes,   *)
(* child_heights, tree }, Stored { hash, child_heights, tree }.  An empty  *)
(* slot (Option::None) is NoLink.                                          *)
(***************************************************************************)
NoLink == [tag |-> "None"]
Modified(pending_writes, heights, t) ==
    [tag |-> "Modified", pending_writes |-> pending_writes,
     child_heights |-> heights, tree |-> t]
Stored(h, heights, t) ==
    [tag |-> "Stored", hash |-> h, child_heights |-> heights, tree |-> t]
Pruned(h, heights, key) ==
    [tag |-> "Pruned", hash |-> h, child_heights |-> heights, key |-> key]

\* Link::hash
link_hash(link) == IF link.tag = "Modified" THEN DIRTY_HASH ELSE link.hash

\* Link::height
link_height(link) == 1 + Max(link.child_heights[1], link.child_heights[2])

\* Link::key
link_key(link) == IF link.tag = "Pruned" THEN link.key ELSE link.tree.key

\* Link::into_pruned: a Stored link gives up its tree; commit never hands it
\* a Modified link
into_pruned(link) ==
    IF link.tag = "Stored"
    THEN Pruned(link.hash, link.child_heights, link.tree.key)
    ELSE link

(***************************************************************************)
(* Tree { kv: KV { key, value, hash }, left, right }.                      *)
(***************************************************************************)
\* Tree::new
Tree_new(key, value) ==
    [key |-> key, value |-> value, kv_hash |-> kv_hash(key, value),
     left |-> NoLink, right |-> NoLink]

\* Tree::link / slot_mut
link(self, left) == IF left THEN self.left ELSE self.right

set_slot(self, left, l) ==
    IF left THEN [self EXCEPT !.left = l] ELSE [self EXCEPT !.right = l]

\* Tree::child_hash
child_hash(self, left) ==
    IF link(self, left).tag = "None" THEN NULL_HASH ELSE link_hash(link(self, left))

\* Tree::hash
hash(self) ==
    node_hash(self.kv_hash, child_hash(self, TRUE), child_hash(self, FALSE))

\* child_pending_writes that counts a Stored link as one pending write
child_pending_writes_counting_stored(self, left) ==
    IF link(self, left).tag = "Modified" THEN link(self, left).pending_writes
    ELSE IF link(self, left).tag = "Stored" THEN 1 ELSE 0

\* Tree::child_pending_writes
child_pending_writes(self, left) ==
    IF link(self, left).tag = "Modified" THEN link(self, left).pending_writes ELSE 0

\* Tree::child_height
child_height(self, left) ==
    IF link(self, left).tag = "None" THEN 0 ELSE link_height(link(self, left))

\* Tree::child_heights
child_heights(self) == <<child_height(self, TRUE), child_height(self, FALSE)>>

\* Tree::height
height(self) == 1 + Max(child_height(self, TRUE), child_height(self, FALSE))

\* Tree::balance_factor
balance_factor(self) == child_height(self, FALSE) - child_height(self, TRUE)

\* Link::maybe_from_modified_tree
maybe_from_modified_tree(maybe_tree) ==
    IF ~maybe_tree.some THEN NoLink
    ELSE LET t == maybe_tree.val
         IN Modified(1 + child_pending_writes(t, TRUE)
                       + child_pending_writes(t, FALSE),
                     child_heights(t), t)

SameKeyPanic == "Tried to attach tree with same key"
OccupiedPanic == "Tried to attach to tree slot, but it is already Some"

\* attach that does not look at the slot before writing it
attach_replacing(self, left, maybe_child) ==
    IF debug_assertions /\ maybe_child.some /\ maybe_child.val.key = self.key
    THEN [panic |-> SameKeyPanic, tree |-> self]
    ELSE [panic |-> "", tree |-> set_slot(self, left,
                                          maybe_from_modified_tree(maybe_child))]

\* Tree::attach: the panic message ("" when it does not panic) and the tree
attach(self, left, maybe_child) ==
    IF debug_assertions /\ maybe_child.some /\ maybe_child.val.key = self.key
    THEN [panic |-> SameKeyPanic, tree |-> self]
    ELSE IF link(self, left).tag # "None"
    THEN [panic |-> OccupiedPanic, tree |-> self]
    ELSE [panic |-> "", tree |-> set_slot(self, left,
                                          maybe_from_modified_tree(maybe_child))]

\* detach that takes a link out of its slot only when it holds a tree
detach_keeping_pruned(self, left) ==
    LET l == link(self, left)
    IN [tree |-> IF l.tag = "Pruned" THEN self ELSE set_slot(self, left, NoLink),
        maybe_child |-> IF l.tag \in {"Modified", "Stored"} THEN Some(l.tree)
                        ELSE None]

\* Tree::detach: (self, maybe_child)
detach(self, left) ==
    LET l == link(self, left)
    IN [tree |-> set_slot(self, left, NoLink),
        maybe_child |-> IF l.tag \in {"Modified", "Stored"} THEN Some(l.tree)
                        ELSE None]

\* walk that reattaches the detached child, not what f returned
walk_reattaching_old(self, left, f) ==
    LET d == detach(self, left)
    IN attach(d.tree, left, d.maybe_child)

\* Tree::walk: detach the child, apply f to it, attach what f returns; the
\* closure f is a function defined on the child it is given
walk(self, left, f) ==
    LET d == detach(self, left)
    IN attach(d.tree, left, f[d.maybe_child])

\* Tree::with_value: the value is replaced and the key/value pair rehashed
with_value(self, value) ==
    [self EXCEPT !.value = value, !.kv_hash = kv_hash(self.key, value)]

\* the caller walks down path and replaces the value of the node there:
\* t.walk(side, |c| Some(c.walk(.., |n| Some(n.with_value(value)))))
RECURSIVE walk_with_value(_, _, _)
walk_with_value(t, path, value) ==
    IF path = <<>> THEN with_value(t, value)
    ELSE walk(t, Head(path),
              [c \in {detach(t, Head(path)).maybe_child} |->
                   Some(walk_with_value(c.val, Tail(path), value))]).tree

(***************************************************************************)
(* The Commit sink.  What write and prune answer is the sink's choice:     *)
(* fail is the key of the node whose write fails (0: none fails), prune    *)
(* gives for each node key the (left, right) flags prune returns.          *)
(* written is the log of the nodes written, calls the log of the calls the *)
(* sink received.                                                          *)
(***************************************************************************)
WriteErr == "write failed"

\* Commit::write
write(c, node) ==
    LET called == [c EXCEPT !.calls = Append(@, <<"write", node.key>>)]
    IN IF c.fail = node.key
       THEN [res |-> Err(WriteErr), c |-> called]
       ELSE [res |-> Ok(<<>>),
             c |-> [called EXCEPT !.written = Append(@, node.key)]]

\* Commit::prune: the flags it returns and the sink after the call
prune(c, node) ==
    [flags |-> c.prune[node.key],
     c |-> [c EXCEPT !.calls = Append(@, <<"prune", node.key>>)]]

\* the prune step with the right flag ignored
prune_links_left_only(self, prune_left, prune_right) ==
    IF prune_left /\ self.left.tag # "None"
    THEN [self EXCEPT !.left = into_pruned(self.left)] ELSE self

\* Tree::commit, the prune step: each flagged side goes through into_pruned
prune_links(self, prune_left, prune_right) ==
    LET a == IF prune_left /\ self.left.tag # "None"
             THEN [self EXCEPT !.left = into_pruned(self.left)] ELSE self
    IN IF prune_right /\ a.right.tag # "None"
       THEN [a EXCEPT !.right = into_pruned(a.right)] ELSE a

RECURSIVE commit(_, _)

\* commit of one side that stores the node's own child heights in the link
commit_child_own_heights(self, left, c) ==
    IF link(self, left).tag = "Modified"
    THEN LET l == link(self, left)
             taken == set_slot(self, left, NoLink)
             r == commit(l.tree, c)
         IN IF r.res.tag = "Err"
            THEN [res |-> r.res, tree |-> taken, c |-> r.c]
            ELSE [res |-> Ok(<<>>),
                  tree |-> set_slot(taken, left,
                                    Stored(hash(r.tree), child_heights(self), r.tree)),
                  c |-> r.c]
    ELSE [res |-> Ok(<<>>), tree |-> self, c |-> c]

\* commit of one side that hashes the child before it commits it
commit_child_hash_before(self, left, c) ==
    IF link(self, left).tag = "Modified"
    THEN LET l == link(self, left)
             taken == set_slot(self, left, NoLink)
             r == commit(l.tree, c)
         IN IF r.res.tag = "Err"
            THEN [res |-> r.res, tree |-> taken, c |-> r.c]
            ELSE [res |-> Ok(<<>>),
                  tree |-> set_slot(taken, left,
                                    Stored(hash(l.tree), l.child_heights, r.tree)),
                  c |-> r.c]
    ELSE [res |-> Ok(<<>>), tree |-> self, c |-> c]

\* Tree::commit, one side: a Modified link is taken out of its slot, its
\* tree committed, and a Stored link put in the slot; `?` returns early
commit_child(self, left, c) ==
    IF link(self, left).tag = "Modified"
    THEN LET l == link(self, left)
             taken == set_slot(self, left, NoLink)
             r == commit(l.tree, c)
         IN IF r.res.tag = "Err"
            THEN [res |-> r.res, tree |-> taken, c |-> r.c]
            ELSE [res |-> Ok(<<>>),
                  tree |-> set_slot(taken, left,
                                    Stored(hash(r.tree), l.child_heights, r.tree)),
                  c |-> r.c]
    ELSE [res |-> Ok(<<>>), tree |-> self, c |-> c]

\* commit that writes the node before it commits its children
commit_writing_first(self, c) ==
    LET w == write(c, self)
    IN IF w.res.tag = "Err"
       THEN [res |-> w.res, tree |-> self, c |-> w.c]
       ELSE LET a == commit_child(self, TRUE, w.c)
            IN IF a.res.tag = "Err" THEN a
               ELSE LET b == commit_child(a.tree, FALSE, a.c)
                    IN IF b.res.tag = "Err" THEN b
                       ELSE LET p == prune(b.c, b.tree)
                            IN [res |-> Ok(<<>>),
                                tree |-> prune_links(b.tree, p.flags[1],
                                                     p.flags[2]),
                                c |-> p.c]

\* Tree::commit: the result, the tree and the sink after the call
commit(self, c) ==
    LET a == commit_child(self, TRUE, c)
    IN IF a.res.tag = "Err" THEN a
       ELSE LET b == commit_child(a.tree, FALSE, a.c)
            IN IF b.res.tag = "Err" THEN b
               ELSE LET w == write(b.c, b.tree)
                    IN IF w.res.tag = "Err"
                       THEN [res |-> w.res, tree |-> b.tree, c |-> w.c]
                       ELSE LET p == prune(w.c, b.tree)
                            IN [res |-> Ok(<<>>),
                                tree |-> prune_links(b.tree, p.flags[1],
                                                     p.flags[2]),
                                c |-> p.c]

(***************************************************************************)
(* The Fetch source.  What it answers is the source's choice: fail makes   *)
(* fetch return an error, wrong makes it return a node of another key than *)
(* the one the link records; otherwise it returns the node the link stands *)
(* for, as the store holds it: the node that hashes to the link's hash,    *)
(* each of its children a Pruned link.                                     *)
(***************************************************************************)
FetchErr == "fetch failed"
ExpectLinkPanic == "Expected link"
ExpectPrunedPanic == "Expected Some(Link::Pruned)"
KeyAssertPanic == "assertion failed: tree.key() == link.key()"

\* a key that is not k
OtherKey(k) == (k % MaxNew) + 1

\* the height of the subtree that hashes to h
RECURSIVE HashHeight(_)
HashHeight(h) ==
    IF h = NULL_HASH THEN 0 ELSE 1 + Max(HashHeight(h[2]), HashHeight(h[3]))

\* the Pruned link a stored node has for the child that hashes to h
StoredLink(h) ==
    IF h = NULL_HASH THEN NoLink
    ELSE Pruned(h, <<HashHeight(h[2]), HashHeight(h[3])>>, h[1][1])

\* the node that hashes to h, as the store holds it
StoredNode(h) ==
    [key |-> h[1][1], value |-> h[1][2], kv_hash |-> h[1],
     left |-> StoredLink(h[2]), right |-> StoredLink(h[3])]

\* Fetch::fetch
fetch(source, l) ==
    IF source.fail THEN Err(FetchErr)
    ELSE IF source.wrong
    THEN Ok(Tree_new(OtherKey(link_key(l)), NewValue(OtherKey(link_key(l)))))
    ELSE Ok(StoredNode(l.hash))

\* load that takes the link out of the slot before it fetches
load_taking(self, left, source) ==
    LET l == link(self, left)
    IN IF l.tag = "None"
       THEN [panic |-> ExpectLinkPanic, res |-> Ok(<<>>), tree |-> self]
       ELSE IF l.tag # "Pruned"
       THEN [panic |-> ExpectPrunedPanic, res |-> Ok(<<>>), tree |-> self]
       ELSE LET r == fetch(source, l)
            IN IF r.tag = "Err"
               THEN [panic |-> "", res |-> r, tree |-> set_slot(self, left, NoLink)]
               ELSE IF debug_assertions /\ r.val.key # link_key(l)
               THEN [panic |-> KeyAssertPanic, res |-> Ok(<<>>), tree |-> self]
               ELSE [panic |-> "", res |-> Ok(<<>>),
                     tree |-> set_slot(self, left,
                                       Stored(l.hash, l.child_heights, r.val))]

\* load that computes the hash and the heights from the fetched node
load_recomputing(self, left, source) ==
    LET l == link(self, left)
    IN IF l.tag = "None"
       THEN [panic |-> ExpectLinkPanic, res |-> Ok(<<>>), tree |-> self]
       ELSE IF l.tag # "Pruned"
       THEN [panic |-> ExpectPrunedPanic, res |-> Ok(<<>>), tree |-> self]
       ELSE LET r == fetch(source, l)
            IN IF r.tag = "Err"
               THEN [panic |-> "", res |-> r, tree |-> self]
               ELSE IF debug_assertions /\ r.val.key # link_key(l)
               THEN [panic |-> KeyAssertPanic, res |-> Ok(<<>>), tree |-> self]
               ELSE [panic |-> "", res |-> Ok(<<>>),
                     tree |-> set_slot(self, left,
                                       Stored(hash(r.val), child_heights(r.val),
                                              r.val))]

\* load that installs the fetched node the way attach does
load_as_modified(self, left, source) ==
    LET l == link(self, left)
    IN IF l.tag = "None"
       THEN [panic |-> ExpectLinkPanic, res |-> Ok(<<>>), tree |-> self]
       ELSE IF l.tag # "Pruned"
       THEN [panic |-> ExpectPrunedPanic, res |-> Ok(<<>>), tree |-> self]
       ELSE LET r == fetch(source, l)
            IN IF r.tag = "Err"
               THEN [panic |-> "", res |-> r, tree |-> self]
               ELSE IF debug_assertions /\ r.val.key # link_key(l)
               THEN [panic |-> KeyAssertPanic, res |-> Ok(<<>>), tree |-> self]
               ELSE [panic |-> "", res |-> Ok(<<>>),
                     tree |-> set_slot(self, left,
                                       maybe_from_modified_tree(Some(r.val)))]

\* Tree::load: the panic message ("" when it does not panic), the result
\* and the node after the call
load(self, left, source) ==
    LET l == link(self, left)
    IN IF l.tag = "None"
       THEN [panic |-> ExpectLinkPanic, res |-> Ok(<<>>), tree |-> self]
       ELSE IF l.tag # "Pruned"
       THEN [panic |-> ExpectPrunedPanic, res |-> Ok(<<>>), tree |-> self]
       ELSE LET r == fetch(source, l)
            IN IF r.tag = "Err"
               THEN [panic |-> "", res |-> r, tree |-> self]
               ELSE IF debug_assertions /\ r.val.key # link_key(l)
               THEN [panic |-> KeyAssertPanic, res |-> Ok(<<>>), tree |-> self]
               ELSE [panic |-> "", res |-> Ok(<<>>),
                     tree |-> set_slot(self, left,
                                       Stored(l.hash, l.child_heights, r.val))]

\* Tree::child_mut: the child a caller can reach on that side, if any
child_mut(self, left) ==
    IF link(self, left).tag \in {"Stored", "Modified"}
    THEN Some(link(self, left).tree) ELSE None

\* the node reached from t by child_mut along path, if every step has one
RECURSIVE NodeAt(_, _)
NodeAt(t, path) ==
    IF path = <<>> THEN Some(t)
    ELSE LET c == child_mut(t, Head(path))
         IN IF c.some THEN NodeAt(c.val, Tail(path)) ELSE None

\* t with the node at path replaced by n (written through the &mut Tree
\* that child_mut gave)
RECURSIVE ReplaceAt(_, _, _)
ReplaceAt(t, path, n) ==
    IF path = <<>> THEN n
    ELSE LET l == link(t, Head(path))
         IN set_slot(t, Head(path),
                     [l EXCEPT !.tree = ReplaceAt(l.tree, Tail(path), n)])

\* the paths a caller follows with child_mut
Paths == UNION { [1..n -> BOOLEAN] : n \in 0..(MaxNew - 2) }

\* the paths a caller walks down: they reach every node of a tree
WalkPaths == UNION { [1..n -> BOOLEAN] : n \in 0..(MaxNew - 1) }

\* the sources a load may be given
Sources ==
    { [fail |-> FALSE, wrong |-> FALSE], [fail |-> FALSE, wrong |-> TRUE],
      [fail |-> TRUE, wrong |-> FALSE] }

\* NoopCommit: every write succeeds, nothing is pruned
NoopCommit ==
    [fail |-> 0, prune |-> [k \in TreeKeys |-> <<FALSE, FALSE>>],
     written |-> <<>>, calls |-> <<>>]

\* the nodes commit visits: the node itself and what it reaches through
\* Modified links
RECURSIVE Visited(_)
VisitedOfLink(l) == IF l.tag = "Modified" THEN Visited(l.tree) ELSE {}
Visited(t) == {t} \cup VisitedOfLink(t.left) \cup VisitedOfLink(t.right)

\* the keys of the first n nodes written
Written(order, n) == { order[i] : i \in 1..n }

\* the sinks that differ in what they do to tree t: a write can only fail
\* for a node commit visits, prune is asked only about the nodes written
\* (those before the node whose write fails), and its flag for a side only
\* matters at a node that has a link on that side
SinksFor(t) ==
    LET order == commit(t, NoopCommit).c.written
        fails == { 0 } \cup { order[i] : i \in 1..Len(order) }
        first(f) == CHOOSE i \in 1..Len(order) :
                        order[i] = f /\ \A j \in 1..(i - 1) : order[j] # f
        asked(f) == IF f = 0 THEN Written(order, Len(order))
                    ELSE Written(order, first(f) - 1)
        lefts(f) == { n.key : n \in { m \in Visited(t) :
                                        m.key \in asked(f) /\ m.left.tag # "None" } }
        rights(f) == { n.key : n \in { m \in Visited(t) :
                                         m.key \in asked(f) /\ m.right.tag # "None" } }
    IN UNION { { [fail |-> f,
                  prune |-> [k \in TreeKeys |-> <<k \in pl, k \in pr>>],
                  written |-> <<>>, calls |-> <<>>] :
                   pl \in SUBSET lefts(f), pr \in SUBSET rights(f) } :
               f \in fails }

TreeInit ==
    /\ tree = Tree_new(1, NewValue(1))
    /\ debug_assertions \in BOOLEAN
    /\ fatal = ""
    /\ created = 1
    /\ lastOp = None

\* the children a caller attaches: none, or a new node whose key is new
\* or (an invalid tree) the key of the node it is attached to
NewChildren(parentKey) ==
    {None} \cup { Some(Tree_new(k, NewValue(k))) : k \in {created + 1, parentKey} }

\* every child a caller may offer to attach
Children == {None} \cup { Some(Tree_new(k, NewValue(k))) : k \in TreeKeys }

\* tree = tree.attach(left, maybe_child)
Attach(left, maybe_child) ==
    /\ fatal = ""
    /\ maybe_child \in NewChildren(tree.key)
    /\ maybe_child.some => created < MaxNew
    /\ LET r == attach(tree, left, maybe_child)
       IN /\ tree' = r.tree
          /\ fatal' = r.panic
          /\ lastOp' = Some([op |-> "attach", before |-> tree, left |-> left,
                             maybe_child |-> maybe_child, res |-> r])
    /\ created' = IF maybe_child.some THEN created + 1 ELSE created
    /\ UNCHANGED <<debug_assertions, mapVars>>

\* tree = Tree::new(key, value).attach(left, Some(tree))
Wrap(left, key) ==
    /\ fatal = ""
    /\ created < MaxNew
    /\ key \in {created + 1, tree.key}
    /\ LET new == Tree_new(key, NewValue(key))
           r == attach(new, left, Some(tree))
       IN /\ tree' = IF r.panic = "" THEN r.tree ELSE tree
          /\ fatal' = r.panic
          /\ lastOp' = Some([op |-> "attach", before |-> new, left |-> left,
                             maybe_child |-> Some(tree), res |-> r])
    /\ created' = created + 1
    /\ UNCHANGED <<debug_assertions, mapVars>>

\* (tree, maybe_child) = tree.detach(left): the detached child is dropped
\* after the caller looked at it
Detach(left) ==
    /\ fatal = ""
    /\ tree' = detach(tree, left).tree
    /\ lastOp' = Some([op |-> "detach", before |-> tree, left |-> left,
                       maybe_child |-> detach(tree, left).maybe_child])
    /\ UNCHANGED <<debug_assertions, fatal, created, mapVars>>

\* tree.commit(&mut c), for a sink c
Commit ==
    /\ fatal = ""
    /\ \E c \in SinksFor(tree) :
          LET r == commit(tree, c)
          IN /\ tree' = r.tree
             /\ lastOp' = Some([op |-> "commit", before |-> tree,
                                res |-> r.res, c |-> r.c,
                                edit |-> IF lastOp.some /\ lastOp.val.op = "with_value"
                                         THEN Some(lastOp.val) ELSE None])
    /\ UNCHANGED <<debug_assertions, fatal, created, mapVars>>

\* node.load(left, &source), node being tree or a descendant that child_mut
\* reaches along path
Load(path, left, source) ==
    /\ fatal = ""
    /\ NodeAt(tree, path).some
    /\ LET node == NodeAt(tree, path).val
           r == load(node, left, source)
       IN /\ tree' = ReplaceAt(tree, path, r.tree)
          /\ fatal' = r.panic
          /\ lastOp' = Some([op |-> "load", path |-> path,
                             before |-> node, left |-> left,
                             fetched |-> IF link(node, left).tag = "Pruned"
                                         THEN fetch(source, link(node, left))
                                         ELSE Err(""),
                             res |-> r,
                             since |-> IF ~lastOp.some THEN None
                                       ELSE IF lastOp.val.op = "commit"
                                               /\ lastOp.val.res.tag = "Ok"
                                       THEN Some(hash(tree))
                                       ELSE IF lastOp.val.op = "load"
                                       THEN lastOp.val.since
                                       ELSE None])
    /\ UNCHANGED <<debug_assertions, created, mapVars>>

\* tree = tree.walk(..).. down path, with_value(value) on the node there:
\* the caller replaces the value the node was created with
WalkWithValue(path, value) ==
    /\ fatal = ""
    /\ NodeAt(tree, path).some
    /\ value = AltValue(NodeAt(tree, path).val.key)
    /\ value # NodeAt(tree, path).val.value
    /\ tree' = walk_with_value(tree, path, value)
    /\ lastOp' = Some([op |-> "with_value", before |-> tree, path |-> path,
                       value |-> value])
    /\ UNCHANGED <<debug_assertions, fatal, created, mapVars>>

TreeNext ==
    \/ \E left \in BOOLEAN, child \in Children : Attach(left, child)
    \/ \E left \in BOOLEAN, key \in TreeKeys : Wrap(left, key)
    \/ \E left \in BOOLEAN : Detach(left)
    \/ Commit
    \/ \E path \in Paths, left \in BOOLEAN, source \in Sources :
          Load(path, left, source)

(***************************************************************************)
(* Specifications: the proof-map program, and the tree program.            *)
(***************************************************************************)
TreeIdle ==
    /\ tree = Tree_new(1, NewValue(1))
    /\ debug_assertions = TRUE
    /\ fatal = ""
    /\ created = 1
    /\ lastOp = None

Init == MapInit /\ TreeIdle
Next == MapNext
Spec == Init /\ [][Next]_vars

TreeSpecInit == TreeInit /\ MapInit
TreeSpec == TreeSpecInit /\ [][TreeNext]_vars

\* the tree program of a caller that keeps the keys of a tree distinct,
\* replaces values, and loads from a source that returns the node asked for
\* or fails
GoodSources == { source \in Sources : ~source.wrong }

\* attach of a child whose key is not the key of the node
ValidAttach(left, maybe_child) ==
    /\ maybe_child.some => maybe_child.val.key # tree.key
    /\ Attach(left, maybe_child)

\* attach of the tree to a new node of another key
ValidWrap(left, key) ==
    /\ key # tree.key
    /\ Wrap(left, key)

ValidNext ==
    \/ \E left \in BOOLEAN, child \in Children : ValidAttach(left, child)
    \/ \E left \in BOOLEAN, key \in TreeKeys : ValidWrap(left, key)
    \/ \E left \in BOOLEAN : Detach(left)
    \/ Commit
    \/ \E path \in Paths, left \in BOOLEAN, source \in GoodSources :
          Load(path, left, source)
    \/ \E path \in WalkPaths, value \in TreeValues : WalkWithValue(path, value)

\* no assertion can fail in these runs, so the build makes no difference
ValidInit == TreeIdle /\ MapInit
ValidSpec == ValidInit /\ [][ValidNext]_vars

(***************************************************************************)
(* Claims about the map builder.                                           *)
(***************************************************************************)
IsKV(i) == ingested[i].node.type = "KV"

\* C1: a KV leaf whose key is <= the key of the last stored entry is
\* rejected with the ordering error, so the accepted leaves have strictly
\* ascending (hence unique) keys and the stored keys are exactly theirs.
C1_InsertStrictlyAscending ==
    /\ \A i, j \in 1..Len(ingested) :
         (i < j /\ IsKV(i) /\ IsKV(j))
             => KeyLt(ingested[i].node.key, ingested[j].node.key)
    /\ DOMAIN builder.entries
         = { ingested[i].node.key : i \in { j \in 1..Len(ingested) : IsKV(j) } }
    /\ (lastInsert.some /\ lastInsert.val.node.type = "KV"
          /\ \E k \in DOMAIN lastInsert.val.before.entries :
                 KeyLe(lastInsert.val.node.key, k))
         => lastInsert.val.res = Err(OrderErr)

\* a duplicate key was offered after two leaves were accepted, and refused
C1_Witness ==
    /\ phase = "building"
    /\ lastInsert.some
    /\ lastInsert.val.res = Err(OrderErr)
    /\ lastInsert.val.node.key \in DOMAIN builder.entries
    /\ Cardinality(DOMAIN builder.entries) >= 2

\* C9: right_edge is true iff nothing was ingested yet or the last node
\* ingested was a KV leaf (false iff it was a Hash or KVHash node).
C9_RightEdgeTracksLastNode ==
    builder.right_edge = (ingested = <<>> \/ IsKV(Len(ingested)))

\* right_edge went false on a hash node after a leaf, and back to true on
\* the next leaf
C9_Witness ==
    /\ Len(ingested) = 4
    /\ IsKV(1) /\ ~IsKV(2) /\ IsKV(3) /\ ~IsKV(4)
    /\ ingested[3].right_edge = FALSE
    /\ ingested[4].right_edge = TRUE
    /\ builder.right_edge = FALSE

\* C10: every stored entry's contiguous flag is right_edge as it was when
\* the entry was inserted: false iff a Hash or KVHash node was ingested
\* just before this leaf (after the previous leaf, or after the start),
\* and later inserts do not change the flag or the value.
C10_ContiguousIsEdgeAtInsert ==
    \A i \in 1..Len(ingested) :
        IsKV(i) =>
            /\ ingested[i].node.key \in DOMAIN builder.entries
            /\ LET e == builder.entries[ingested[i].node.key]
               IN /\ e.contiguous = ingested[i].right_edge
                  /\ e.value = ingested[i].node.value
                  /\ (~e.contiguous) <=> (i > 1 /\ ~IsKV(i - 1))

\* leaf, hash, leaf, leaf: the flags true, false, true are still there
\* after the later inserts
C10_Witness ==
    /\ Len(ingested) = 4
    /\ IsKV(1) /\ ~IsKV(2) /\ IsKV(3) /\ IsKV(4)
    /\ builder.entries[ingested[1].node.key].contiguous
    /\ ~builder.entries[ingested[3].node.key].contiguous
    /\ builder.entries[ingested[4].node.key].contiguous

(***************************************************************************)
(* Claims about get and range.                                             *)
(***************************************************************************)
IsErrItem(x) == x.some /\ x.val.tag = "Err"
IsOkItem(x) == x.some /\ x.val.tag = "Ok"

\* the stored keys inside [start, end], in ascending order
InBounds == Ascending({ k \in DOMAIN builder.entries :
                          KeyLe(query[1], k) /\ KeyLe(k, query[2]) })

\* C2: on a map built from leaf a, a hash-only (or key/hash-only) node and
\* leaf b, get(k) for an absent key k with a < k < b is the "missing data"
\* error, never Ok(None).
C2_GetAcrossGapIsError ==
    (/\ phase = "built"
     /\ lastGet.some
     /\ Len(ingested) = 3
     /\ IsKV(1) /\ ~IsKV(2) /\ IsKV(3)
     /\ KeyLt(ingested[1].node.key, lastGet.val.key)
     /\ KeyLt(lastGet.val.key, ingested[3].node.key))
        => lastGet.val.res = Err(MissingErr)

\* C5: a range sequence yields at most one error and nothing after it: no
\* item, Ok or Err, follows an Err.
C5_NothingAfterError ==
    phase = "ranging" =>
        \A i, j \in 1..Len(yielded) :
            (i < j /\ IsErrItem(yielded[i])) => ~yielded[j].some

\* C6: an entry in the bounds that is not flagged contiguous yields the
\* "missing data" error unless its key is exactly start; the entry whose
\* key is start is yielded Ok whatever its flag; no other key is exempted.
C6_OnlyStartIsExempt ==
    phase = "ranging" =>
        \A i \in 1..Len(yielded) :
            i <= Len(InBounds) =>
                LET k == InBounds[i]
                    e == builder.entries[k]
                IN IF ~e.contiguous /\ k # query[1]
                   THEN yielded[i] = Some(Err(MissingErr))
                   ELSE yielded[i] = Some(Ok(<<k, e.value>>))

\* hash, leaf a, hash, leaf b and range(a, b): a is yielded Ok though it
\* is not contiguous, b yields the error
C6_Witness ==
    /\ phase = "ranging"
    /\ Len(InBounds) = 2
    /\ Len(yielded) >= 2
    /\ InBounds[1] = query[1]
    /\ ~builder.entries[InBounds[1]].contiguous
    /\ ~builder.entries[InBounds[2]].contiguous
    /\ IsOkItem(yielded[1])
    /\ IsErrItem(yielded[2])

\* C7: on the map of the three leaves [1,2,3], [1,2,4], [1,2,5],
\* range([1,2,3], [1,2,5]) yields exactly two Ok items, for [1,2,3] and
\* [1,2,4], and then the end of the sequence.
C7_RangeOkYieldsTwo ==
    (/\ phase = "ranging"
     /\ Len(ingested) = 3
     /\ IsKV(1) /\ IsKV(2) /\ IsKV(3)
     /\ ingested[1].node.key = <<1, 2, 3>>
     /\ ingested[2].node.key = <<1, 2, 4>>
     /\ ingested[3].node.key = <<1, 2, 5>>
     /\ query = << <<1, 2, 3>>, <<1, 2, 5>> >>
     /\ Len(yielded) >= 3)
        => /\ yielded[1] = Some(Ok(<< <<1, 2, 3>>, ingested[1].node.value >>))
           /\ yielded[2] = Some(Ok(<< <<1, 2, 4>>, ingested[2].node.value >>))
           /\ yielded[3] = None

C11_GetHitReturnsValue ==
    (phase = "built" /\ lastGet.some
       /\ lastGet.val.key \in DOMAIN builder.entries) =>
        \E i \in 1..Len(ingested) :
            /\ IsKV(i)
            /\ ingested[i].node.key = lastGet.val.key
            /\ lastGet.val.res = Ok(Some(ingested[i].node.value))

\* a hit on an entry that is not contiguous, in a map whose right edge is
\* not proven
C11_Witness ==
    /\ phase = "built"
    /\ lastGet.some
    /\ lastGet.val.key \in DOMAIN builder.entries
    /\ ~builder.entries[lastGet.val.key].contiguous
    /\ ~builder.right_edge
    /\ lastGet.val.res.tag = "Ok"

\* C12: on a map built from KV leaves only, get(k) for a key k that was
\* not ingested returns Ok(None), never an error.
C12_GetAbsentOnFullMap ==
    (phase = "built" /\ lastGet.some
       /\ (\A i \in 1..Len(ingested) : IsKV(i))
       /\ \A i \in 1..Len(ingested) : ingested[i].node.key # lastGet.val.key)
        => lastGet.val.res = Ok(None)

\* two leaves and a get of an absent key that lies between them
C12_Witness ==
    /\ phase = "built"
    /\ lastGet.some
    /\ Len(ingested) = 2
    /\ IsKV(1) /\ IsKV(2)
    /\ KeyLt(ingested[1].node.key, lastGet.val.key)
    /\ KeyLt(lastGet.val.key, ingested[2].node.key)
    /\ lastGet.val.res = Ok(None)

(***************************************************************************)
(* Claims about commit.                                                    *)
(***************************************************************************)
Committed == lastOp.some /\ lastOp.val.op = "commit"

\* C3: when commit fails, every child link of the node is as it was
\* before the call.
C3_FailedCommitKeepsLinks ==
    (Committed /\ lastOp.val.res.tag = "Err") =>
        /\ tree.left = lastOp.val.before.left
        /\ tree.right = lastOp.val.before.right

\* what a successful commit makes of link b, a being the link after it
RECURSIVE CommittedAs(_, _, _)
LinkCommittedAs(b, a, flag, pr) ==
    CASE b.tag = "None" -> a.tag = "None"
      [] b.tag = "Pruned" -> a.tag = "Pruned"
      [] b.tag = "Stored" -> a.tag = (IF flag THEN "Pruned" ELSE "Stored")
      [] b.tag = "Modified" ->
            IF flag THEN a.tag = "Pruned"
            ELSE a.tag = "Stored" /\ CommittedAs(b.tree, a.tree, pr)
CommittedAs(b, a, pr) ==
    /\ LinkCommittedAs(b.left, a.left, pr[b.key][1], pr)
    /\ LinkCommittedAs(b.right, a.right, pr[b.key][2], pr)

\* C4: after a successful commit no child link of the node, nor of a
\* descendant reached through Modified links, is Modified: a Modified or
\* Stored link is Pruned if prune flagged its side and Stored otherwise, a
\* Pruned link stays Pruned, an empty slot stays empty.
C4_CommitSettlesLinks ==
    (Committed /\ lastOp.val.res.tag = "Ok") =>
        CommittedAs(lastOp.val.before, tree, lastOp.val.c.prune)

\* a node whose left link was Stored and whose right link was Modified:
\* prune flags the left only, which ends Pruned, the right ends Stored
C4_Witness ==
    /\ Committed
    /\ lastOp.val.res.tag = "Ok"
    /\ lastOp.val.before.left.tag = "Stored"
    /\ lastOp.val.before.right.tag = "Modified"
    /\ lastOp.val.c.prune[tree.key] = <<TRUE, FALSE>>
    /\ tree.left.tag = "Pruned"
    /\ tree.right.tag = "Stored"

(***************************************************************************)
(* Claims about attach.                                                    *)
(***************************************************************************)
Attached == lastOp.some /\ lastOp.val.op = "attach"

\* C13: attach on a node whose slot on that side holds a link of any
\* variant fails fatally, for every maybe_child including None, and the
\* link in the slot is not replaced or dropped.
C13_AttachOccupiedIsFatal ==
    (Attached /\ link(lastOp.val.before, lastOp.val.left).tag # "None") =>
        /\ lastOp.val.res.panic \in {OccupiedPanic, SameKeyPanic}
        /\ fatal = lastOp.val.res.panic
        /\ lastOp.val.res.tree = lastOp.val.before
        /\ tree = lastOp.val.before

\* attach(left, None) on a slot that holds a Pruned link panics
C13_Witness ==
    /\ Attached
    /\ link(lastOp.val.before, lastOp.val.left).tag = "Pruned"
    /\ ~lastOp.val.maybe_child.some
    /\ fatal = OccupiedPanic
    /\ link(tree, lastOp.val.left).tag = "Pruned"

\* C14: attach(side, Some(child)) with a child whose key is the key of the
\* node always fails fatally and never installs the child.
C14_AttachSameKeyIsFatal ==
    (Attached /\ lastOp.val.maybe_child.some
       /\ lastOp.val.maybe_child.val.key = lastOp.val.before.key) =>
        /\ fatal # ""
        /\ link(lastOp.val.res.tree, lastOp.val.left)
             = link(lastOp.val.before, lastOp.val.left)

(***************************************************************************)
(* Claims about load.                                                      *)
(***************************************************************************)
\* load was called on a Pruned link, so the source was asked
Loaded ==
    /\ lastOp.some /\ lastOp.val.op = "load"
    /\ link(lastOp.val.before, lastOp.val.left).tag = "Pruned"

\* the node load was called on, as it is in the tree now
LoadedNode == NodeAt(tree, lastOp.val.path).val

\* C18: a load whose fetch succeeds and that returns replaces the Pruned
\* link with a Stored link that holds the fetched node and carries the
\* hash and child heights of the Pruned link; the node's hash(), height(),
\* balance_factor() and its link on the other side are unchanged.
C18_LoadKeepsHashAndHeights ==
    (Loaded /\ lastOp.val.fetched.tag = "Ok" /\ lastOp.val.res.panic = "") =>
        LET b == lastOp.val.before
            a == lastOp.val.res.tree
            side == lastOp.val.left
            l == link(b, side)
        IN /\ lastOp.val.res.res = Ok(<<>>)
           /\ LoadedNode = a
           /\ link(a, side) = Stored(l.hash, l.child_heights, lastOp.val.fetched.val)
           /\ link(a, ~side) = link(b, ~side)
           /\ hash(a) = hash(b)
           /\ height(a) = height(b)
           /\ balance_factor(a) = balance_factor(b)

\* a node with a Pruned left link of height 2 and no right child
\* loads its left child
C18_Witness ==
    /\ Loaded
    /\ lastOp.val.left
    /\ lastOp.val.res.res = Ok(<<>>) /\ lastOp.val.res.panic = ""
    /\ lastOp.val.before.left.child_heights # <<0, 0>>
    /\ tree.left.tag = "Stored"
    /\ tree.left.tree.key = lastOp.val.before.left.key
    /\ balance_factor(tree) = -2

\* C19: when fetch fails, load returns that error and the node is as it
\* was: the link is the same Pruned link, no link is changed.
C19_FailedLoadKeepsLinks ==
    (Loaded /\ lastOp.val.fetched.tag = "Err") =>
        /\ lastOp.val.res.panic = ""
        /\ lastOp.val.res.res = lastOp.val.fetched
        /\ lastOp.val.res.tree = lastOp.val.before
        /\ LoadedNode = lastOp.val.before
        /\ fatal = ""

\* a load of a Pruned link below the root fails: the link is still Pruned
C19_Witness ==
    /\ Loaded
    /\ lastOp.val.path # <<>>
    /\ lastOp.val.res.res = Err(FetchErr)
    /\ link(LoadedNode, lastOp.val.left).tag = "Pruned"

\* C20: when fetch returns a node whose key is not the key the Pruned link
\* records, load returns an error result (no panic, no silent success)
\* and does not install the fetched node.
C20_KeyMismatchIsError ==
    (Loaded /\ lastOp.val.fetched.tag = "Ok"
       /\ lastOp.val.fetched.val.key
            # link_key(link(lastOp.val.before, lastOp.val.left))) =>
        /\ lastOp.val.res.panic = ""
        /\ lastOp.val.res.res.tag = "Err"
        /\ lastOp.val.res.tree = lastOp.val.before

(***************************************************************************)
(* Claims about heights and hashes.                                        *)
(***************************************************************************)
\* the nodes of t that are in memory
RECURSIVE Materialized(_)
MaterializedOfLink(l) ==
    IF l.tag \in {"Modified", "Stored"} THEN Materialized(l.tree) ELSE {}
Materialized(t) ==
    {t} \cup MaterializedOfLink(t.left) \cup MaterializedOfLink(t.right)

\* the height of a subtree, computed on the nodes in memory; the height a
\* Pruned link records stands for the subtree that is not in memory
RECURSIVE ActualHeight(_)
ActualChildHeight(l) ==
    CASE l.tag = "None" -> 0
      [] l.tag = "Pruned" -> link_height(l)
      [] OTHER -> ActualHeight(l.tree)
ActualHeight(t) ==
    1 + Max(ActualChildHeight(t.left), ActualChildHeight(t.right))

\* C15: after every operation of a valid sequence, for every node in
\* memory and each side, child_height(side) is the height of the child in
\* memory on that side (0 for an empty slot), so height() is 1 + the
\* larger child height and balance_factor() is right minus left, computed
\* on the actual subtrees.
C15_HeightsMatchSubtrees ==
    \A n \in Materialized(tree) :
        /\ \A side \in BOOLEAN :
              child_height(n, side) = ActualChildHeight(link(n, side))
        /\ height(n) = ActualHeight(n)
        /\ balance_factor(n)
             = ActualChildHeight(n.right) - ActualChildHeight(n.left)

\* a committed chain of three nodes whose middle node was walked to: the
\* root's left link is Modified again, over a Stored link, height 3
C15_Witness ==
    /\ lastOp.some /\ lastOp.val.op = "with_value"
    /\ tree.left.tag = "Modified"
    /\ tree.left.tree.left.tag = "Stored"
    /\ tree.right.tag = "None"
    /\ height(tree) = 3
    /\ balance_factor(tree) = -2

\* the hash of a tree computed from the nodes in memory, not from the
\* hashes its links record
RECURSIVE DeepHash(_)
DeepChildHash(l) ==
    CASE l.tag = "None" -> NULL_HASH
      [] l.tag = "Pruned" -> l.hash
      [] OTHER -> DeepHash(l.tree)
DeepHash(t) ==
    node_hash(kv_hash(t.key, t.value), DeepChildHash(t.left), DeepChildHash(t.right))

RECURSIVE NoPruned(_)
NoPrunedLink(l) ==
    CASE l.tag = "None" -> TRUE
      [] l.tag = "Pruned" -> FALSE
      [] OTHER -> NoPruned(l.tree)
NoPruned(t) == NoPrunedLink(t.left) /\ NoPrunedLink(t.right)

\* C16: after a commit, whatever the sink pruned, hash() is the hash the
\* tree has when committed with a sink that prunes nothing; loading Pruned
\* links from a source that returns the pruned subtrees keeps hash() what
\* it was right after the commit, and the tree rebuilt in memory hashes to
\* it.
C16_CommitPruneLoadKeepsHash ==
    /\ (Committed /\ lastOp.val.res.tag = "Ok") =>
          /\ hash(tree) = hash(commit(lastOp.val.before, NoopCommit).tree)
          /\ DeepHash(tree) = hash(tree)
    /\ (lastOp.some /\ lastOp.val.op = "load" /\ lastOp.val.since.some) =>
          /\ hash(tree) = lastOp.val.since.val
          /\ DeepHash(tree) = lastOp.val.since.val

\* a chain of three nodes was committed and pruned at the root; the child
\* and then the grandchild were loaded, and nothing is Pruned any more
C16_Witness ==
    /\ Loaded
    /\ lastOp.val.path # <<>>
    /\ lastOp.val.res.res = Ok(<<>>) /\ lastOp.val.res.panic = ""
    /\ lastOp.val.since.some
    /\ NoPruned(tree)
    /\ height(tree) = 3
    /\ hash(tree) = lastOp.val.since.val

\* t has no Modified link: it is as a successful commit leaves it
RECURSIVE NoModified(_)
NoModifiedLink(l) ==
    CASE l.tag = "Modified" -> FALSE
      [] l.tag = "Stored" -> NoModified(l.tree)
      [] OTHER -> TRUE
NoModified(t) == NoModifiedLink(t.left) /\ NoModifiedLink(t.right)

\* a successful commit that follows the replacement of one value in a
\* committed tree
Recommitted ==
    /\ Committed /\ lastOp.val.res.tag = "Ok"
    /\ lastOp.val.edit.some
    /\ NoModified(lastOp.val.edit.val.before)

\* the path that was walked, and the paths to the nodes on it
EditPath == lastOp.val.edit.val.path
OnPath == { SubSeq(EditPath, 1, n) : n \in 0..Len(EditPath) }

\* the hash of the node at path q of t as t knows it: hash() for t itself,
\* the hash its parent's link records otherwise; none when the parent is
\* not in memory
RECURSIVE HashAt(_, _)
HashAt(t, q) ==
    IF q = <<>> THEN Some(hash(t))
    ELSE LET l == link(t, Head(q))
         IN IF l.tag = "None" THEN None
            ELSE IF Len(q) = 1 THEN Some(link_hash(l))
            ELSE IF l.tag = "Pruned" THEN None
            ELSE HashAt(l.tree, Tail(q))

\* link a is link b, or b pruned
SameOrPruned(b, a) == a = b \/ a = into_pruned(b)

\* C17: replacing the value of one node of a committed tree (walking down
\* to it, with_value, reattaching on the way back) and committing again
\* changes the hash of every node on the path from that node to the root,
\* and leaves the hash of every link off that path as it was; the node's
\* hash() is node_hash of its kv_hash and its two child hashes.
C17_EditChangesPathHashesOnly ==
    Recommitted =>
        LET old == lastOp.val.edit.val.before
        IN /\ \A q \in OnPath :
                 HashAt(tree, q).some => HashAt(tree, q) # HashAt(old, q)
           /\ \A q \in OnPath : NodeAt(tree, q).some =>
                 \A side \in BOOLEAN :
                     (q = EditPath \/ side # EditPath[Len(q) + 1]) =>
                         LET b == NodeAt(old, q).val
                             a == NodeAt(tree, q).val
                         IN /\ child_hash(a, side) = child_hash(b, side)
                            /\ SameOrPruned(link(b, side), link(a, side))
           /\ NodeAt(tree, EditPath).some =>
                 LET a == NodeAt(tree, EditPath).val
                 IN /\ a.value = lastOp.val.edit.val.value
                    /\ a.kv_hash = kv_hash(a.key, a.value)
           /\ hash(tree) = node_hash(kv_hash(tree.key, tree.value),
                                     child_hash(tree, TRUE), child_hash(tree, FALSE))

\* in a committed tree whose root has two leaves, the value of one leaf
\* was replaced and the tree committed again: the root and the leaf have
\* new hashes, the link to the other leaf is as it was
C17_Witness ==
    /\ Recommitted
    /\ Len(EditPath) = 1
    /\ LET old == lastOp.val.edit.val.before
       IN /\ link(old, ~EditPath[1]).tag = "Stored"
          /\ link(old, EditPath[1]).child_heights = <<0, 0>>
          /\ link(tree, ~EditPath[1]) = link(old, ~EditPath[1])
          /\ link(tree, EditPath[1]).tag = "Stored"
          /\ link(tree, EditPath[1]).tree.value
               = AltValue(link(tree, EditPath[1]).tree.key)
          /\ link(tree, EditPath[1]).hash # link(old, EditPath[1]).hash
          /\ hash(tree) # hash(old)

(***************************************************************************)
(* detach                                                                  *)
(***************************************************************************)
Detached == lastOp.some /\ lastOp.val.op = "detach"

\* the callback of a walk that hands back the child it is given
GiveBack(self, left) ==
    [c \in {None} \cup { Some(l.tree) : l \in { m \in {link(self, left)} :
                                                  m.tag \in {"Modified", "Stored"} } }
       |-> c]

\* C21: detach(side) returns the child of a Modified or Stored link and None
\* for an empty slot or a Pruned link; the slot is empty afterwards, so
\* child_hash(side) is the null hash and child_height(side) is 0, and the
\* other side and the node's own data are as before.  A walk over a Pruned
\* link hands None to its callback and leaves the slot empty.
C21_DetachEmptiesSlot ==
    /\ Detached =>
          LET b == lastOp.val.before
              left == lastOp.val.left
              got == lastOp.val.maybe_child
          IN /\ link(b, left).tag \in {"Modified", "Stored"}
                   => got = Some(link(b, left).tree)
             /\ link(b, left).tag \in {"None", "Pruned"} => got = None
             /\ link(tree, left) = NoLink
             /\ child_hash(tree, left) = NULL_HASH
             /\ child_height(tree, left) = 0
             /\ link(tree, ~left) = link(b, ~left)
             /\ tree.key = b.key /\ tree.value = b.value
             /\ tree.kv_hash = b.kv_hash
    /\ \A left \in BOOLEAN :
          link(tree, left).tag = "Pruned" =>
             LET w == walk(tree, left, GiveBack(tree, left))
             IN /\ w.panic = ""
                /\ link(w.tree, left) = NoLink
                /\ link(w.tree, ~left) = link(tree, ~left)

\* a Pruned link was detached while the other side held a link
C21_Witness ==
    /\ Detached
    /\ link(lastOp.val.before, lastOp.val.left).tag = "Pruned"
    /\ link(lastOp.val.before, ~lastOp.val.left).tag # "None"
    /\ lastOp.val.maybe_child = None

(***************************************************************************)
(* child_pending_writes                                                    *)
(***************************************************************************)
\* C22: child_pending_writes(side) is 0 when the link on that side is
\* absent, Stored or Pruned and at least 1 when it is Modified, for every
\* node in memory; it is exactly 1 right after the attach of a childless
\* node, and 0 on both sides of the node, and of every node in memory below
\* it, after a successful commit.
C22_PendingWritesOnlyOnModified ==
    /\ \A n \in Materialized(tree) : \A left \in BOOLEAN :
          /\ link(n, left).tag \in {"None", "Stored", "Pruned"}
                => child_pending_writes(n, left) = 0
          /\ link(n, left).tag = "Modified"
                => child_pending_writes(n, left) >= 1
    /\ (/\ Attached
        /\ lastOp.val.res.panic = ""
        /\ lastOp.val.maybe_child.some
        /\ lastOp.val.maybe_child.val.left = NoLink
        /\ lastOp.val.maybe_child.val.right = NoLink)
          => child_pending_writes(tree, lastOp.val.left) = 1
    /\ (Committed /\ lastOp.val.res.tag = "Ok") =>
          \A n \in Materialized(tree) : \A left \in BOOLEAN :
              child_pending_writes(n, left) = 0

\* a successful commit of a node that had two writes pending on one side
\* and keeps a Stored link there
C22_Witness ==
    /\ Committed
    /\ lastOp.val.res.tag = "Ok"
    /\ \E left \in BOOLEAN :
          /\ child_pending_writes(lastOp.val.before, left) >= 2
          /\ link(tree, left).tag = "Stored"

(***************************************************************************)
(* The calls a commit makes to its sink.                                   *)
(***************************************************************************)
\* post-order over Modified links, left before right: for each node its
\* write, then its prune
RECURSIVE ExpectedCalls(_)
ExpectedCallsOfLink(l) ==
    IF l.tag = "Modified" THEN ExpectedCalls(l.tree) ELSE <<>>
ExpectedCalls(t) ==
    ExpectedCallsOfLink(t.left) \o ExpectedCallsOfLink(t.right)
        \o << <<"write", t.key>>, <<"prune", t.key>> >>

\* C23: the calls a successful commit makes to its sink are, in post-order
\* over the Modified links (left subtree, right subtree, node), one write
\* for the node and for each descendant reached through Modified links
\* only, each followed by the prune of the same node; nothing is written
\* behind a Stored or Pruned link.  In any commit, prune is called for a
\* node only right after the write of that node succeeded.
C23_CommitWritesPostOrder ==
    Committed =>
        LET calls == lastOp.val.c.calls
        IN /\ lastOp.val.res.tag = "Ok" => calls = ExpectedCalls(lastOp.val.before)
           /\ \A i \in 1..Len(calls) :
                 calls[i][1] = "prune" =>
                    /\ i > 1
                    /\ calls[i - 1] = <<"write", calls[i][2]>>
                    /\ calls[i][2] # lastOp.val.c.fail

\* a successful commit of a node with a Stored child, which is not written,
\* and a Modified child, which is written before the node
C23_Witness ==
    /\ Committed
    /\ lastOp.val.res.tag = "Ok"
    /\ \E left \in BOOLEAN :
          /\ link(lastOp.val.before, left).tag = "Stored"
          /\ link(lastOp.val.before, ~left).tag = "Modified"
    /\ Len(lastOp.val.c.written) = 2

(***************************************************************************)
(* The end of a range.                                                     *)
(***************************************************************************)
\* the stored keys strictly greater than k
KeysAfter(k) == { j \in DOMAIN builder.entries : KeyLt(k, j) }

\* whether the data proves the end of the range: with no entry in the
\* bounds, right_edge; else for the stored entry next after the last key
\* in the bounds its contiguous flag, and right_edge when there is none
EndProven ==
    IF Len(InBounds) = 0 THEN builder.right_edge
    ELSE LET after == KeysAfter(InBounds[Len(InBounds)])
         IN IF after = {} THEN builder.right_edge
            ELSE builder.entries[Ascending(after)[1]].contiguous

RECURSIVE Replay(_)
Replay(n) ==
    IF n = 0 THEN JsMapBuilder_new
    ELSE insert(Replay(n - 1), ingested[n].node).map

\* C25: an insert that fails with the ordering error leaves the builder as
\* it was before the call: the same entries with the same contiguous flags
\* and values, the same right_edge; at any time the builder is what the
\* accepted nodes alone give, as if no rejected node had been offered.
C25_RejectedInsertKeepsBuilder ==
    /\ (lastInsert.some /\ lastInsert.val.res = Err(OrderErr)) =>
          /\ DOMAIN builder.entries = DOMAIN lastInsert.val.before.entries
          /\ \A k \in DOMAIN builder.entries :
                builder.entries[k] = lastInsert.val.before.entries[k]
          /\ builder.right_edge = lastInsert.val.before.right_edge
    /\ phase = "building" => builder = Replay(Len(ingested))

\* a leaf, a hash-only node, then a leaf whose key is not greater: the
\* insert is rejected while right_edge is false
C25_Witness ==
    /\ lastInsert.some
    /\ lastInsert.val.res = Err(OrderErr)
    /\ ~lastInsert.val.before.right_edge
    /\ DOMAIN lastInsert.val.before.entries # {}
    /\ ~builder.right_edge

(***************************************************************************)
(* Stored links.                                                           *)
(***************************************************************************)
\* the links from the root down path, the node at its end included
RECURSIVE LinksOnPath(_, _)
LinksOnPath(t, path) ==
    IF path = <<>> THEN {}
    ELSE {link(t, Head(path))}
           \cup (IF link(t, Head(path)).tag \in {"Modified", "Stored"}
                 THEN LinksOnPath(link(t, Head(path)).tree, Tail(path))
                 ELSE {})

\* C26: after every operation of a valid sequence, every Stored link in
\* the tree carries the hash() of the node it holds; attaching a node,
\* committed or not, gives a Modified link, and so does every link a walk
\* goes through to replace a value.
C26_StoredHashIsNodeHash ==
    /\ \A n \in Materialized(tree) : \A left \in BOOLEAN :
          link(n, left).tag = "Stored"
             => link(n, left).hash = hash(link(n, left).tree)
    /\ (Attached /\ lastOp.val.res.panic = "" /\ lastOp.val.maybe_child.some)
          => link(tree, lastOp.val.left).tag = "Modified"
    /\ (lastOp.some /\ lastOp.val.op = "with_value")
          => \A l \in LinksOnPath(tree, lastOp.val.path) : l.tag = "Modified"

\* the value of a committed grandchild was replaced and the tree committed
\* again: both links down to it are Stored, with the hashes of the new nodes
C26_Witness ==
    /\ Committed
    /\ lastOp.val.res.tag = "Ok"
    /\ lastOp.val.edit.some
    /\ Len(lastOp.val.edit.val.path) = 2
    /\ LET p == lastOp.val.edit.val.path
           old == lastOp.val.edit.val.before
       IN /\ link(old, p[1]).tag = "Stored"
          /\ link(tree, p[1]).tag = "Stored"
          /\ link(link(tree, p[1]).tree, p[2]).tag = "Stored"
          /\ link(tree, p[1]).hash # link(old, p[1]).hash
          /\ link(tree, p[1]).hash = hash(link(tree, p[1]).tree)
====
